---- MODULE Spec2Model ----
(***************************************************************************)
(* Model of scripts/dev/analyze-video.py: the segment detector, the scope  *)
(* resolver, the black/freeze reporters, the transcription fallback and    *)
(* the run of main.                                                        *)
(*                                                                         *)
(* Python's Optional values are modelled as sequences of length <= 1:      *)
(* None is <<>> and a present value v is <<v>>.  Python lists are TLA+     *)
(* sequences, so the Python index i is the TLA+ index i + 1.               *)
(* Metric values and thresholds are floats in the program; the model uses  *)
(* integers for them.  tail_seconds is a float; the model counts it in     *)
(* quarters of a second (exact in binary floating point), and the frame    *)
(* rate is a positive integer, so tail_seconds * fps is the exact rational *)
(* tail_q * fps / 4.                                                       *)
(***************************************************************************)
EXTENDS Integers, Sequences, FiniteSets, TLC

VARIABLES
    pc,             \* position of the run (or of the function call under study)
    args,           \* the argparse.Namespace returned by parse_args
    input_exists,   \* whether args.input names an existing path
    reader,         \* the imageio reader of load_metrics: state and call counts
    fps,            \* load_metrics: fps
    luma_values,    \* load_metrics: luma_values
    motion_values,  \* load_metrics: motion_values
    tried,          \* analyze_transcribe: the backends called so far, in order
    missing_errors, \* analyze_transcribe: missing_errors (insertion-ordered dict)
    scans,          \* number of detect_segments calls made by the run
    result,         \* what run_analysis returned: <<>> or <<report>>
    exc,            \* the exception run_analysis raised: <<>> or <<exception>>
    stdout,         \* what main printed to sys.stdout
    stderr,         \* what main printed to sys.stderr
    outfile,        \* the --output file: <<>> or <<text written>>
    exit_code,      \* the value main returned: <<>> or <<code>>
    call,           \* a direct call of a pure function: its arguments
    ret             \* a direct call of a pure function: <<>> or <<outcome>>

vars == <<pc, args, input_exists, reader, fps, luma_values, motion_values, tried,
          missing_errors, scans, result, exc, stdout, stderr, outfile, exit_code,
          call, ret>>

None == <<>>
Some(v) == <<v>>

Max(a, b) == IF a >= b THEN a ELSE b

(***************************************************************************)
(* Bounds of the model.                                                    *)
(***************************************************************************)
MaxLen == 5          \* longest metric sequence given to detect_segments directly
MaxMinFrames == 3    \* largest min_frames / --min-segment-frames
MaxTotal == 6        \* largest total_frames given to get_scope_indices directly
MaxTailQ == 9        \* largest tail_seconds, in quarters of a second
MaxFps == 3          \* largest frame rate given to get_scope_indices directly

MetricValues == {0, 1}         \* metric values of the direct calls
Thresholds == {-1, 0, 1}       \* thresholds of the direct calls

(***************************************************************************)
(* detect_segments                                                         *)
(***************************************************************************)
Segment(seg_start, seg_end, frame_count) ==
    [start_frame_index |-> seg_start, end_frame_index |-> seg_end,
     frame_count |-> frame_count]

\* A plausible slip in the length filter: the run's length counted as
\* seg_end - seg_start.
emit_run_off_by_one(segments, seg_start, seg_end, min_frames) ==
    LET frame_count == seg_end - seg_start
    IN  IF frame_count >= min_frames
        THEN Append(segments, Segment(seg_start, seg_end, frame_count))
        ELSE segments

\* Closing a run: it is appended when it is long enough (the same code after
\* a non-qualifying value and after the scan).
emit_run(segments, seg_start, seg_end, min_frames) ==
    LET frame_count == seg_end - seg_start + 1
    IN  IF frame_count >= min_frames
        THEN Append(segments, Segment(seg_start, seg_end, frame_count))
        ELSE segments

\* The scan `for idx in range(index_start, index_end)` from idx on; the
\* result is the loop's state after the last iteration.
RECURSIVE detect_scan(_, _, _, _, _, _, _, _)
detect_scan(values, threshold, min_frames, idx, index_end, segments, seg_start, seg_end) ==
    IF idx >= index_end
    THEN [segments |-> segments, seg_start |-> seg_start, seg_end |-> seg_end]
    ELSE LET value == values[idx + 1]
         IN  IF value # None /\ value[1] <= threshold
             THEN detect_scan(values, threshold, min_frames, idx + 1, index_end, segments,
                              IF seg_start = None THEN Some(idx) ELSE seg_start, Some(idx))
             ELSE IF seg_start # None /\ seg_end # None
             THEN detect_scan(values, threshold, min_frames, idx + 1, index_end,
                              emit_run(segments, seg_start[1], seg_end[1], min_frames),
                              None, None)
             ELSE detect_scan(values, threshold, min_frames, idx + 1, index_end, segments,
                              seg_start, seg_end)

\* A plausible slip: the run still open when the scan ends is dropped.
detect_segments_no_final_close(values, threshold, min_frames, index_start, index_end) ==
    detect_scan(values, threshold, min_frames, index_start, index_end, <<>>, None, None).segments

detect_segments(values, threshold, min_frames, index_start, index_end) ==
    LET s == detect_scan(values, threshold, min_frames, index_start, index_end,
                         <<>>, None, None)
    IN  IF s.seg_start # None /\ s.seg_end # None
        THEN emit_run(s.segments, s.seg_start[1], s.seg_end[1], min_frames)
        ELSE s.segments

(***************************************************************************)
(* get_scope_indices                                                       *)
(***************************************************************************)
TailDen == 4    \* tail_seconds is counted in quarters of a second

\* Python's round() on the float num / den (den > 0): the nearest integer,
\* a tie going to the even neighbour.
round(num, den) ==
    LET q == num \div den
        r == num % den
    IN  IF 2 * r < den THEN q
        ELSE IF 2 * r > den THEN q + 1
        ELSE IF q % 2 = 0 THEN q ELSE q + 1

ValueError(msg) == [kind |-> "ValueError", msg |-> msg]
Raise(e) == [raised |-> Some(e), value |-> None]
Return(v) == [raised |-> None, value |-> Some(v)]

\* A plausible slip: the tail window sized with ceil instead of round.
get_scope_indices_ceil(total_frames, scope, tail_q, frame_rate) ==
    IF total_frames <= 0 THEN Return(<<0, 0>>)
    ELSE IF scope = "full" THEN Return(<<0, total_frames>>)
    ELSE IF tail_q <= 0
    THEN Raise(ValueError("--tail-seconds must be > 0 when --scope tail"))
    ELSE LET tail_frames == Max(1, -((-(tail_q * frame_rate)) \div TailDen))
         IN  Return(<<Max(0, total_frames - tail_frames), total_frames>>)

\* A plausible slip: the `max(1, ...)` floor of the tail window left out.
get_scope_indices_no_floor(total_frames, scope, tail_q, frame_rate) ==
    IF total_frames <= 0 THEN Return(<<0, 0>>)
    ELSE IF scope = "full" THEN Return(<<0, total_frames>>)
    ELSE IF tail_q <= 0
    THEN Raise(ValueError("--tail-seconds must be > 0 when --scope tail"))
    ELSE LET tail_frames == round(tail_q * frame_rate, TailDen)
         IN  Return(<<Max(0, total_frames - tail_frames), total_frames>>)

get_scope_indices(total_frames, scope, tail_q, frame_rate) ==
    IF total_frames <= 0 THEN Return(<<0, 0>>)
    ELSE IF scope = "full" THEN Return(<<0, total_frames>>)
    ELSE IF tail_q <= 0
    THEN Raise(ValueError("--tail-seconds must be > 0 when --scope tail"))
    ELSE LET tail_frames == Max(1, round(tail_q * frame_rate, TailDen))
         IN  Return(<<Max(0, total_frames - tail_frames), total_frames>>)

(***************************************************************************)
(* The reporters.  Times and ratios are floats in the program; the model   *)
(* keeps each as the fraction the code divides.                            *)
(***************************************************************************)
Frac(n, d) == [num |-> n, den |-> d]

enrich_segments_with_time(segments, frame_rate) ==
    [i \in 1..Len(segments) |->
        [start_frame_index |-> segments[i].start_frame_index,
         end_frame_index |-> segments[i].end_frame_index,
         start_time_sec |-> Frac(segments[i].start_frame_index, frame_rate),
         end_time_sec |-> Frac(segments[i].end_frame_index, frame_rate),
         frame_count |-> segments[i].frame_count,
         duration_sec |-> Frac(segments[i].frame_count, frame_rate)]]

\* A plausible slip: the first segment tested instead of the last.
ends_at_video_end_first_segment(segments, total) ==
    LET last_idx == total - 1
    IN  segments # <<>> /\ segments[1].end_frame_index >= last_idx

\* `bool(segments and segments[-1]["end_frame_index"] >= last_idx)` with
\* last_idx = total - 1, as both segment reporters compute it.
ends_at_video_end(segments, total) ==
    LET last_idx == total - 1
    IN  segments # <<>> /\ segments[Len(segments)].end_frame_index >= last_idx

\* The fields of the summary report that do not need the percentile
\* estimator (luma_stats and motion_stats are left out but for sample_count).
analyze_summary(frame_rate, luma, motion, black_threshold) ==
    LET total == Len(luma)
        black_count == Cardinality({i \in 1..total : luma[i] <= black_threshold})
    IN  Return([mode |-> "summary",
                fps |-> frame_rate,
                total_frames |-> total,
                duration_sec_estimate |-> Frac(total, frame_rate),
                black_threshold |-> black_threshold,
                motion_sample_count |-> Cardinality({i \in 1..Len(motion) : motion[i] # None}),
                black_frame_count |-> black_count,
                black_frame_ratio |-> Frac(black_count, total)])

\* A plausible slip: the black frames counted over the whole clip instead of
\* the scope.
analyze_black_segments_count_whole_clip(frame_rate, luma, scope, tail_q, black_threshold, min_segment_frames) ==
    LET total == Len(luma)
        r == get_scope_indices(total, scope, tail_q, frame_rate)
    IN  IF r.raised # None THEN r
        ELSE
        LET start == r.value[1][1]
            end == r.value[1][2]
            black_flags == [i \in 1..total |-> Some(luma[i])]
            segments_raw == detect_segments(black_flags, black_threshold,
                                            min_segment_frames, start, end)
            segments == enrich_segments_with_time(segments_raw, frame_rate)
            scoped_count == end - start
            black_count == Cardinality({idx \in 0..(total - 1) :
                                           luma[idx + 1] <= black_threshold})
        IN  Return([mode |-> "black-segments",
                    fps |-> frame_rate,
                    total_frames |-> total,
                    duration_sec_estimate |-> Frac(total, frame_rate),
                    scope |-> scope,
                    tail_seconds |-> IF scope = "tail" THEN Some(tail_q) ELSE None,
                    scope_start_frame |-> start,
                    scope_end_frame_exclusive |-> end,
                    black_threshold |-> black_threshold,
                    min_segment_frames |-> min_segment_frames,
                    black_frame_count_in_scope |-> black_count,
                    black_frame_ratio_in_scope |-> IF scoped_count > 0
                                             THEN Frac(black_count, scoped_count)
                                             ELSE Frac(0, 1),
                    has_black_at_video_end |-> ends_at_video_end(segments, total),
                    segment_count |-> Len(segments),
                    segments |-> segments])

analyze_black_segments(frame_rate, luma, scope, tail_q, black_threshold, min_segment_frames) ==
    LET total == Len(luma)
        r == get_scope_indices(total, scope, tail_q, frame_rate)
    IN  IF r.raised # None THEN r
        ELSE
        LET start == r.value[1][1]
            end == r.value[1][2]
            black_flags == [i \in 1..total |-> Some(luma[i])]
            segments_raw == detect_segments(black_flags, black_threshold,
                                            min_segment_frames, start, end)
            segments == enrich_segments_with_time(segments_raw, frame_rate)
            scoped_count == end - start
            black_count == Cardinality({idx \in start..(end - 1) :
                                           luma[idx + 1] <= black_threshold})
        IN  Return([mode |-> "black-segments",
                    fps |-> frame_rate,
                    total_frames |-> total,
                    duration_sec_estimate |-> Frac(total, frame_rate),
                    scope |-> scope,
                    tail_seconds |-> IF scope = "tail" THEN Some(tail_q) ELSE None,
                    scope_start_frame |-> start,
                    scope_end_frame_exclusive |-> end,
                    black_threshold |-> black_threshold,
                    min_segment_frames |-> min_segment_frames,
                    black_frame_count_in_scope |-> black_count,
                    black_frame_ratio_in_scope |-> IF scoped_count > 0
                                             THEN Frac(black_count, scoped_count)
                                             ELSE Frac(0, 1),
                    has_black_at_video_end |-> ends_at_video_end(segments, total),
                    segment_count |-> Len(segments),
                    segments |-> segments])

\* A plausible slip: the clamp `start = max(start, 1)` left out.
clamp_freeze_start_missing(start) == start

\* `start = max(start, 1)`: frame 0 has no motion value.
clamp_freeze_start(start) == Max(start, 1)

analyze_freeze_segments(frame_rate, motion, scope, tail_q, freeze_threshold, min_segment_frames) ==
    LET total == Len(motion)
        r == get_scope_indices(total, scope, tail_q, frame_rate)
    IN  IF r.raised # None THEN r
        ELSE
        LET start == clamp_freeze_start(r.value[1][1])
            end == r.value[1][2]
            segments_raw == detect_segments(motion, freeze_threshold,
                                            min_segment_frames, start, end)
            segments == enrich_segments_with_time(segments_raw, frame_rate)
            scoped_count == Max(0, end - start)
            freeze_count == Cardinality({idx \in start..(end - 1) :
                                            /\ motion[idx + 1] # None
                                            /\ motion[idx + 1][1] <= freeze_threshold})
        IN  Return([mode |-> "freeze-segments",
                    fps |-> frame_rate,
                    total_frames |-> total,
                    duration_sec_estimate |-> Frac(total, frame_rate),
                    scope |-> scope,
                    tail_seconds |-> IF scope = "tail" THEN Some(tail_q) ELSE None,
                    scope_start_frame |-> start,
                    scope_end_frame_exclusive |-> end,
                    freeze_threshold |-> freeze_threshold,
                    min_segment_frames |-> min_segment_frames,
                    freeze_frame_count_in_scope |-> freeze_count,
                    freeze_frame_ratio_in_scope |-> IF scoped_count > 0
                                             THEN Frac(freeze_count, scoped_count)
                                             ELSE Frac(0, 1),
                    has_freeze_at_video_end |-> ends_at_video_end(segments, total),
                    segment_count |-> Len(segments),
                    segments |-> segments])

(***************************************************************************)
(* Direct calls of the pure functions: the arguments are drawn in the      *)
(* initial state and one action applies the function.                      *)
(***************************************************************************)
NoRun ==
    /\ args = None
    /\ input_exists = FALSE
    /\ reader = None
    /\ fps = None
    /\ luma_values = <<>>
    /\ motion_values = <<>>
    /\ tried = <<>>
    /\ missing_errors = <<>>
    /\ scans = 0
    /\ result = None
    /\ exc = None
    /\ stdout = <<>>
    /\ stderr = <<>>
    /\ outfile = None
    /\ exit_code = None

runVars == <<args, input_exists, reader, fps, luma_values, motion_values, tried,
             missing_errors, scans, result, exc, stdout, stderr, outfile, exit_code>>

MetricEntries == {None} \cup {Some(v) : v \in MetricValues}

MetricSeqs(n) == UNION {[1..k -> MetricEntries] : k \in 0..n}

InitDetect ==
    /\ NoRun
    /\ pc = "call"
    /\ ret = None
    /\ \E values \in MetricSeqs(MaxLen), threshold \in Thresholds,
          min_frames \in 1..MaxMinFrames :
          \E index_end \in 0..Len(values) : \E index_start \in 0..index_end :
             call = [fn |-> "detect_segments", values |-> values, threshold |-> threshold,
                     min_frames |-> min_frames, index_start |-> index_start,
                     index_end |-> index_end]

CallDetectSegments ==
    /\ pc = "call"
    /\ call.fn = "detect_segments"
    /\ ret' = Some(detect_segments(call.values, call.threshold, call.min_frames,
                                   call.index_start, call.index_end))
    /\ pc' = "return"
    /\ UNCHANGED <<call, runVars>>

SpecDetect == InitDetect /\ [][CallDetectSegments]_vars

InitScope ==
    /\ NoRun
    /\ pc = "call"
    /\ ret = None
    /\ \E total_frames \in 0..MaxTotal, scope \in {"full", "tail"},
          tail_q \in (-1)..MaxTailQ, frame_rate \in 1..MaxFps :
          call = [fn |-> "get_scope_indices", total_frames |-> total_frames,
                  scope |-> scope, tail_q |-> tail_q, fps |-> frame_rate]

CallGetScopeIndices ==
    /\ pc = "call"
    /\ call.fn = "get_scope_indices"
    /\ ret' = Some(get_scope_indices(call.total_frames, call.scope, call.tail_q, call.fps))
    /\ pc' = "return"
    /\ UNCHANGED <<call, runVars>>

SpecScope == InitScope /\ [][CallGetScopeIndices]_vars

(***************************************************************************)
(* The run of main: parse_args has returned args; run_analysis validates,  *)
(* then transcribes or loads the metrics and dispatches on the mode; main  *)
(* prints the report or the exception.                                     *)
(***************************************************************************)
MaxFrames == 2           \* most frames the frame source yields in a run
MaxRunMinFrames == 2     \* largest --min-segment-frames of a run
DefaultFps == 30         \* the frame rate used when the source reports none

Modes == {"summary", "black-segments", "freeze-segments", "transcribe",
          "tail-black", "full-black"}
Scopes == {"full", "tail"}
Providers == {"auto", "faster-whisper", "openai-whisper"}
RunTailQ == {0, 1, 6}                 \* --tail-seconds of a run, in quarters
RunThresholds == {-1, 1}              \* --black-threshold, --freeze-threshold
RunBeamSizes == {0, 1}                \* --stt-beam-size
FrameLumas == {0, 2}                  \* compute_luma of a decoded frame
FrameDiffs == {0, 2}                  \* compute_frame_diff of two decoded frames
ReportedFps == {None, Some(-1), Some(0), Some(2)}   \* meta.get("fps")
BackendOutcomes == {"ok", "missing", "error"}

ArgSpace ==
    [mode : Modes, scope : Scopes, tail_q : RunTailQ,
     black_threshold : RunThresholds, freeze_threshold : RunThresholds,
     min_segment_frames : 0..MaxRunMinFrames, stt_beam_size : RunBeamSizes,
     stt_provider : Providers, output : BOOLEAN]

NewReader == [state |-> "none", opens |-> 0, closes |-> 0, reads |-> 0]

NoCall == call = None /\ ret = None

Init ==
    /\ pc = "run_analysis"
    /\ args \in ArgSpace
    /\ input_exists \in BOOLEAN
    /\ reader = NewReader
    /\ fps = None
    /\ luma_values = <<>>
    /\ motion_values = <<>>
    /\ tried = <<>>
    /\ missing_errors = <<>>
    /\ scans = 0
    /\ result = None
    /\ exc = None
    /\ stdout = <<>>
    /\ stderr = <<>>
    /\ outfile = None
    /\ exit_code = None
    /\ NoCall

Exception(kind, msg) == [kind |-> kind, msg |-> msg]

normalize_mode_scope(mode, scope) ==
    IF mode = "tail-black" THEN <<"black-segments", "tail">>
    ELSE IF mode = "full-black" THEN <<"black-segments", "full">>
    ELSE <<mode, scope>>

\* A plausible slip: the --min-segment-frames check left out.
check_params_no_min_frames(a) ==
    IF a.black_threshold < 0 THEN Some(ValueError("--black-threshold must be >= 0"))
    ELSE IF a.freeze_threshold < 0 THEN Some(ValueError("--freeze-threshold must be >= 0"))
    ELSE IF a.stt_beam_size <= 0 THEN Some(ValueError("--stt-beam-size must be > 0"))
    ELSE None

\* The parameter checks of run_analysis, in the code's order: the exception
\* raised, or None.
check_params(a) ==
    IF a.min_segment_frames <= 0 THEN Some(ValueError("--min-segment-frames must be > 0"))
    ELSE IF a.black_threshold < 0 THEN Some(ValueError("--black-threshold must be >= 0"))
    ELSE IF a.freeze_threshold < 0 THEN Some(ValueError("--freeze-threshold must be >= 0"))
    ELSE IF a.stt_beam_size <= 0 THEN Some(ValueError("--stt-beam-size must be > 0"))
    ELSE None

\* run_analysis up to the call of analyze_transcribe or load_metrics.
Validate ==
    /\ pc = "run_analysis"
    /\ IF ~input_exists
       THEN /\ exc' = Some(Exception("FileNotFoundError", "input video not found"))
            /\ pc' = "except"
       ELSE IF check_params(args) # None
       THEN /\ exc' = check_params(args)
            /\ pc' = "except"
       ELSE /\ exc' = exc
            /\ pc' = IF normalize_mode_scope(args.mode, args.scope)[1] = "transcribe"
                     THEN "analyze_transcribe"
                     ELSE "load_metrics"
    /\ UNCHANGED <<args, input_exists, reader, fps, luma_values, motion_values, tried,
                   missing_errors, scans, result, stdout, stderr, outfile, exit_code,
                   call, ret>>

(***************************************************************************)
(* load_metrics                                                            *)
(***************************************************************************)
\* The import of imageio and imageio.get_reader: the import fails, opening
\* the source fails, or the reader is open.
OpenReader ==
    /\ pc = "load_metrics"
    /\ \E outcome \in {"no_imageio", "open_failed", "opened"} :
          IF outcome = "no_imageio"
          THEN /\ exc' = Some(Exception("RuntimeError", "imageio was not found"))
               /\ pc' = "except"
               /\ reader' = reader
          ELSE IF outcome = "open_failed"
          THEN /\ exc' = Some(Exception("DecodeError", "cannot open the frame source"))
               /\ pc' = "except"
               /\ reader' = reader
          ELSE /\ exc' = exc
               /\ pc' = "get_meta_data"
               /\ reader' = [reader EXCEPT !.state = "open", !.opens = @ + 1]
    /\ UNCHANGED <<args, input_exists, fps, luma_values, motion_values, tried,
                   missing_errors, scans, result, stdout, stderr, outfile, exit_code,
                   call, ret>>

\* `float(meta.get("fps") or 30.0)`, replaced by 30.0 when it is <= 0.
frame_rate_of(reported) ==
    LET given == IF reported = None \/ reported[1] = 0 THEN DefaultFps ELSE reported[1]
    IN  IF given <= 0 THEN DefaultFps ELSE given

\* reader.get_meta_data() and the frame rate taken from it; when it raises,
\* control passes to the finally clause.
ReadMeta ==
    /\ pc = "get_meta_data"
    /\ \/ \E reported \in ReportedFps :
             /\ fps' = Some(frame_rate_of(reported))
             /\ pc' = "frames"
             /\ exc' = exc
       \/ /\ exc' = Some(Exception("DecodeError", "cannot read the metadata"))
          /\ pc' = "finally"
          /\ fps' = fps
    /\ UNCHANGED <<args, input_exists, reader, luma_values, motion_values, tried,
                   missing_errors, scans, result, stdout, stderr, outfile, exit_code,
                   call, ret>>

\* One iteration of `for frame in reader`: the metrics of the frame are
\* appended; the first frame has no motion value.
ReadFrame ==
    /\ pc = "frames"
    /\ reader.reads < MaxFrames
    /\ \E luma \in FrameLumas, diff \in FrameDiffs :
          /\ luma_values' = Append(luma_values, luma)
          /\ motion_values' = Append(motion_values,
                                     IF luma_values = <<>> THEN None ELSE Some(diff))
    /\ reader' = [reader EXCEPT !.reads = @ + 1]
    /\ UNCHANGED <<pc, args, input_exists, fps, tried, missing_errors, scans, result,
                   exc, stdout, stderr, outfile, exit_code, call, ret>>

\* The frame source or a metric computation raises in the middle of the
\* iteration: control passes to the finally clause.
FrameError ==
    /\ pc = "frames"
    /\ exc' = Some(Exception("DecodeError", "cannot decode a frame"))
    /\ pc' = "finally"
    /\ UNCHANGED <<args, input_exists, reader, fps, luma_values, motion_values, tried,
                   missing_errors, scans, result, stdout, stderr, outfile, exit_code,
                   call, ret>>

\* The frame source is exhausted: the loop ends.
EndOfFrames ==
    /\ pc = "frames"
    /\ pc' = "finally"
    /\ UNCHANGED <<args, input_exists, reader, fps, luma_values, motion_values, tried,
                   missing_errors, scans, result, exc, stdout, stderr, outfile,
                   exit_code, call, ret>>

\* A plausible slip: reader.close() after the loop instead of in a finally
\* clause, so an exception in flight leaves load_metrics without closing.
CloseReader_only_without_exception ==
    /\ pc = "finally"
    /\ reader' = IF exc # None THEN reader
                 ELSE [reader EXCEPT !.state = "closed", !.closes = @ + 1]
    /\ pc' = IF exc # None THEN "except" ELSE "check_frames"
    /\ UNCHANGED <<args, input_exists, fps, luma_values, motion_values, tried,
                   missing_errors, scans, result, exc, stdout, stderr, outfile,
                   exit_code, call, ret>>

\* `finally: reader.close()`; an exception in flight then leaves load_metrics.
CloseReader ==
    /\ pc = "finally"
    /\ reader' = [reader EXCEPT !.state = "closed", !.closes = @ + 1]
    /\ pc' = IF exc # None THEN "except" ELSE "check_frames"
    /\ UNCHANGED <<args, input_exists, fps, luma_values, motion_values, tried,
                   missing_errors, scans, result, exc, stdout, stderr, outfile,
                   exit_code, call, ret>>

\* `if not luma_values: raise RuntimeError(...)`, else load_metrics returns.
LoadReturn ==
    /\ pc = "check_frames"
    /\ IF luma_values = <<>>
       THEN /\ exc' = Some(Exception("RuntimeError", "No video frames could be decoded."))
            /\ pc' = "except"
       ELSE /\ exc' = exc
            /\ pc' = "dispatch"
    /\ UNCHANGED <<args, input_exists, reader, fps, luma_values, motion_values, tried,
                   missing_errors, scans, result, stdout, stderr, outfile, exit_code,
                   call, ret>>

(***************************************************************************)
(* The dispatch of run_analysis on the normalized mode.                    *)
(***************************************************************************)
Mode == normalize_mode_scope(args.mode, args.scope)[1]
Scope == normalize_mode_scope(args.mode, args.scope)[2]

\* The outcome of a reporter leaves run_analysis: a report or an exception.
Leave(outcome) ==
    IF outcome.raised # None
    THEN /\ exc' = outcome.raised
         /\ result' = result
         /\ pc' = "except"
    ELSE /\ result' = outcome.value
         /\ exc' = exc
         /\ pc' = "print"

AnalyzeSummary ==
    /\ pc = "dispatch"
    /\ Mode = "summary"
    /\ Leave(analyze_summary(fps[1], luma_values, motion_values, args.black_threshold))
    /\ UNCHANGED <<args, input_exists, reader, fps, luma_values, motion_values, tried,
                   missing_errors, scans, stdout, stderr, outfile, exit_code, call, ret>>

AnalyzeBlackSegments ==
    /\ pc = "dispatch"
    /\ Mode = "black-segments"
    /\ LET outcome == analyze_black_segments(fps[1], luma_values, Scope, args.tail_q,
                                             args.black_threshold, args.min_segment_frames)
       IN  /\ Leave(outcome)
           /\ scans' = IF outcome.raised = None THEN scans + 1 ELSE scans
    /\ UNCHANGED <<args, input_exists, reader, fps, luma_values, motion_values, tried,
                   missing_errors, stdout, stderr, outfile, exit_code, call, ret>>

AnalyzeFreezeSegments ==
    /\ pc = "dispatch"
    /\ Mode = "freeze-segments"
    /\ LET outcome == analyze_freeze_segments(fps[1], motion_values, Scope, args.tail_q,
                                              args.freeze_threshold, args.min_segment_frames)
       IN  /\ Leave(outcome)
           /\ scans' = IF outcome.raised = None THEN scans + 1 ELSE scans
    /\ UNCHANGED <<args, input_exists, reader, fps, luma_values, motion_values, tried,
                   missing_errors, stdout, stderr, outfile, exit_code, call, ret>>

(***************************************************************************)
(* analyze_transcribe: the backends are external; each call of one ends in *)
(* a report ("ok"), in ModuleNotFoundError ("missing") or in another       *)
(* exception ("error").                                                    *)
(***************************************************************************)
\* A text is a sequence of characters; " " stands for any whitespace.
Whitespace == {" "}

RECURSIVE lstrip(_)
lstrip(text) ==
    IF text # <<>> /\ text[1] \in Whitespace THEN lstrip(Tail(text)) ELSE text

RECURSIVE rstrip(_)
rstrip(text) ==
    IF text # <<>> /\ text[Len(text)] \in Whitespace
    THEN rstrip(SubSeq(text, 1, Len(text) - 1))
    ELSE text

\* str.strip()
strip(text) == rstrip(lstrip(text))

\* " ".join(parts)
RECURSIVE join(_)
join(parts) ==
    IF parts = <<>> THEN <<>>
    ELSE IF Len(parts) = 1 THEN parts[1]
    ELSE parts[1] \o <<" ">> \o join(Tail(parts))

\* A plausible slip: the segment's text kept as the backend gave it.
segment_text_unstripped(raw_text) == raw_text

\* `text = str(...).strip()` of a backend segment.
segment_text(raw_text) == strip(raw_text)

\* The loop that shapes the backend's segments into the report's segments.
shape_segments(raw_segments) ==
    [i \in 1..Len(raw_segments) |->
        [segment_index |-> i - 1,
         start_time_sec |-> raw_segments[i].start,
         end_time_sec |-> raw_segments[i].end,
         text |-> segment_text(raw_segments[i].text)]]

\* `" ".join(seg["text"] for seg in segments if seg["text"]).strip()`
joined_text(segments) ==
    LET kept == SelectSeq(segments, LAMBDA seg : seg.text # <<>>)
    IN  strip(join([i \in 1..Len(kept) |-> kept[i].text]))

\* The report of analyze_transcribe_faster_whisper from the segments the
\* model yields (the fields that echo the arguments are left out).
faster_whisper_report(output) ==
    LET segments == shape_segments(output.segments)
    IN  [mode |-> "transcribe",
         provider |-> "faster-whisper",
         segment_count |-> Len(segments),
         segments |-> segments,
         text |-> joined_text(segments)]

\* The report of analyze_transcribe_openai_whisper from the result dict of
\* model.transcribe: its "segments" and its "text".
openai_whisper_report(output) ==
    LET segments == shape_segments(output.segments)
        full_text == joined_text(segments)
    IN  [mode |-> "transcribe",
         provider |-> "openai-whisper",
         segment_count |-> Len(segments),
         segments |-> segments,
         text |-> IF full_text = <<>> THEN strip(output.text) ELSE full_text]

backend_report(provider, output) ==
    IF provider = "faster-whisper" THEN faster_whisper_report(output)
    ELSE openai_whisper_report(output)

\* What a backend yields in a run: its segments and (openai-whisper) the
\* text of the whole result.
RunBackendOutputs ==
    {[segments |-> <<>>, text |-> <<"a">>],
     [segments |-> <<[start |-> 0, end |-> 1, text |-> <<" ", "a">>]>>, text |-> <<"a">>]}

providers_of(stt_provider) ==
    IF stt_provider = "auto" THEN <<"faster-whisper", "openai-whisper">>
    ELSE <<stt_provider>>

NotInstalled(provider) ==
    IF provider = "faster-whisper"
    THEN "faster-whisper is not installed."
    ELSE "openai-whisper is not installed."

\* A plausible slip: `except Exception` in place of
\* `except ModuleNotFoundError`.
on_backend_outcome_catch_all(outcome) ==
    IF outcome = "ok" THEN "return" ELSE "continue"

\* The try statement around a backend call: its report is returned,
\* ModuleNotFoundError is recorded and the loop continues, any other
\* exception leaves analyze_transcribe.
on_backend_outcome(outcome) ==
    IF outcome = "ok" THEN "return"
    ELSE IF outcome = "missing" THEN "continue"
    ELSE "raise"

\* One iteration of `for provider in providers`.
TryProvider ==
    /\ pc = "analyze_transcribe"
    /\ Len(tried) < Len(providers_of(args.stt_provider))
    /\ LET provider == providers_of(args.stt_provider)[Len(tried) + 1]
       IN  \E outcome \in BackendOutcomes :
              /\ tried' = Append(tried, [provider |-> provider, outcome |-> outcome])
              /\ LET step == on_backend_outcome(outcome)
                 IN  IF step = "return"
                     THEN /\ \E output \in RunBackendOutputs :
                                result' = Some(backend_report(provider, output))
                          /\ pc' = "print"
                          /\ UNCHANGED <<missing_errors, exc>>
                     ELSE IF step = "continue"
                     THEN /\ missing_errors' =
                                Append(missing_errors, <<provider, NotInstalled(provider)>>)
                          /\ UNCHANGED <<pc, result, exc>>
                     ELSE /\ exc' = Some(Exception("BackendError", "the backend failed"))
                          /\ pc' = "except"
                          /\ UNCHANGED <<missing_errors, result>>
    /\ UNCHANGED <<args, input_exists, reader, fps, luma_values, motion_values, scans,
                   stdout, stderr, outfile, exit_code, call, ret>>

\* After the loop: every candidate was tried and none returned.
ProvidersExhausted ==
    /\ pc = "analyze_transcribe"
    /\ Len(tried) = Len(providers_of(args.stt_provider))
    /\ exc' = IF missing_errors # <<>>
              THEN Some(Exception("RuntimeError",
                                  [text |-> "No Whisper STT backend is available in this venv.",
                                   details |-> missing_errors]))
              ELSE Some(ValueError("unsupported stt provider"))
    /\ pc' = "except"
    /\ UNCHANGED <<args, input_exists, reader, fps, luma_values, motion_values, tried,
                   missing_errors, scans, result, stdout, stderr, outfile, exit_code,
                   call, ret>>

(***************************************************************************)
(* main                                                                    *)
(***************************************************************************)
\* json.dumps(result, indent=2, ensure_ascii=False)
dumps(report) == [json |-> report]

\* A plausible slip: the handler prints to standard output and returns 0.
HandleException_as_report ==
    /\ pc = "except"
    /\ stdout' = Append(stdout, exc[1].msg)
    /\ exit_code' = Some(0)
    /\ pc' = "done"
    /\ UNCHANGED <<args, input_exists, reader, fps, luma_values, motion_values, tried,
                   missing_errors, scans, result, exc, stderr, outfile, call, ret>>

\* `except Exception as exc: print(str(exc), file=sys.stderr); return 2`
HandleException ==
    /\ pc = "except"
    /\ stderr' = Append(stderr, exc[1].msg)
    /\ exit_code' = Some(2)
    /\ pc' = "done"
    /\ UNCHANGED <<args, input_exists, reader, fps, luma_values, motion_values, tried,
                   missing_errors, scans, result, exc, stdout, outfile, call, ret>>

\* `print(output_json)`; without --output main returns 0.
PrintReport ==
    /\ pc = "print"
    /\ stdout' = Append(stdout, dumps(result[1]))
    /\ IF args.output
       THEN pc' = "write" /\ exit_code' = exit_code
       ELSE pc' = "done" /\ exit_code' = Some(0)
    /\ UNCHANGED <<args, input_exists, reader, fps, luma_values, motion_values, tried,
                   missing_errors, scans, result, exc, stderr, outfile, call, ret>>

\* The --output file is written and main returns 0, or the file system
\* refuses and the uncaught OSError ends the process with a traceback.
WriteOutput ==
    /\ pc = "write"
    /\ \/ /\ outfile' = Some(<<dumps(result[1]), "\n">>)
          /\ exit_code' = Some(0)
          /\ stderr' = stderr
       \/ /\ outfile' = outfile
          /\ exit_code' = Some(1)
          /\ stderr' = Append(stderr, "Traceback (most recent call last): OSError")
    /\ pc' = "done"
    /\ UNCHANGED <<args, input_exists, reader, fps, luma_values, motion_values, tried,
                   missing_errors, scans, result, exc, stdout, call, ret>>

Next ==
    \/ Validate
    \/ OpenReader
    \/ ReadMeta
    \/ ReadFrame
    \/ FrameError
    \/ EndOfFrames
    \/ CloseReader
    \/ LoadReturn
    \/ AnalyzeSummary
    \/ AnalyzeBlackSegments
    \/ AnalyzeFreezeSegments
    \/ TryProvider
    \/ ProvidersExhausted
    \/ HandleException
    \/ PrintReport
    \/ WriteOutput

Spec == Init /\ [][Next]_vars

(***************************************************************************)
(* The segment reporters on every clip: the run stands at the dispatch of  *)
(* run_analysis with valid parameters, load_metrics having returned a clip *)
(* of 1..MaxClip frames.                                                   *)
(***************************************************************************)
MaxClip == 4                          \* most frames of such a clip
ReportTailQ == {1, 2, 5, 6, 10}       \* --tail-seconds, in quarters
ReportFps == {1, 2}                   \* frame rates of such a clip

InitReport ==
    /\ pc = "dispatch"
    /\ args \in [mode : {"black-segments", "freeze-segments"}, scope : Scopes,
                 tail_q : ReportTailQ, black_threshold : {1}, freeze_threshold : {1},
                 min_segment_frames : 1..MaxRunMinFrames, stt_beam_size : {1},
                 stt_provider : {"auto"}, output : {FALSE}]
    /\ input_exists = TRUE
    /\ \E n \in 1..MaxClip :
          /\ reader = [state |-> "closed", opens |-> 1, closes |-> 1, reads |-> n]
          /\ luma_values \in [1..n -> FrameLumas]
          /\ motion_values \in {<<None>> \o m : m \in [1..(n - 1) -> {Some(d) : d \in FrameDiffs}]}
    /\ fps \in {Some(f) : f \in ReportFps}
    /\ tried = <<>>
    /\ missing_errors = <<>>
    /\ scans = 0
    /\ result = None
    /\ exc = None
    /\ stdout = <<>>
    /\ stderr = <<>>
    /\ outfile = None
    /\ exit_code = None
    /\ NoCall

NextReport == AnalyzeBlackSegments \/ AnalyzeFreezeSegments

SpecReport == InitReport /\ [][NextReport]_vars

(***************************************************************************)
(* The two backends' shaping of the same backend output: the output is     *)
(* drawn in the initial state and either backend's shaping is applied.     *)
(***************************************************************************)
MaxSegs == 2         \* most segments a backend yields
MaxTextLen == 2      \* longest text of a segment or of the whole result

Chars == {" ", "a"}
Texts == UNION {[1..n -> Chars] : n \in 0..MaxTextLen}

\* Segments in order and not overlapping: segment i spans [i - 1, i].
RawSegments ==
    UNION {{[i \in 1..n |-> [start |-> i - 1, end |-> i, text |-> t[i]]] :
               t \in [1..n -> Texts]} : n \in 0..MaxSegs}

InitTranscribe ==
    /\ NoRun
    /\ pc = "call"
    /\ ret = None
    /\ \E segments \in RawSegments, text \in Texts :
          call = [fn |-> "transcribe", segments |-> segments, text |-> text]

CallFasterWhisper ==
    /\ pc = "call"
    /\ call.fn = "transcribe"
    /\ ret' = Some(faster_whisper_report(call))
    /\ pc' = "return"
    /\ UNCHANGED <<call, runVars>>

CallOpenaiWhisper ==
    /\ pc = "call"
    /\ call.fn = "transcribe"
    /\ ret' = Some(openai_whisper_report(call))
    /\ pc' = "return"
    /\ UNCHANGED <<call, runVars>>

SpecTranscribe == InitTranscribe /\ [][CallFasterWhisper \/ CallOpenaiWhisper]_vars

(***************************************************************************)
(* Claims about detect_segments (checked under SpecDetect).                *)
(***************************************************************************)
DetectReturned == pc = "return" /\ call.fn = "detect_segments"

\* C1: every segment detect_segments returns lies within the scanned range
\* [index_start, index_end), has frame_count = end - start + 1 >= min_frames,
\* and each segment starts strictly after the one before it ends.
C1_SegmentsInRangeDisjointAscending ==
    DetectReturned =>
        LET segs == ret[1]
        IN  /\ \A i \in 1..Len(segs) :
                 /\ call.index_start <= segs[i].start_frame_index
                 /\ segs[i].start_frame_index <= segs[i].end_frame_index
                 /\ segs[i].end_frame_index <= call.index_end - 1
                 /\ segs[i].frame_count
                        = segs[i].end_frame_index - segs[i].start_frame_index + 1
                 /\ segs[i].frame_count >= call.min_frames
            /\ \A i \in 1..(Len(segs) - 1) :
                 segs[i + 1].start_frame_index > segs[i].end_frame_index

\* Two segments were returned, one of them exactly min_frames >= 2 long.
C1_Witness ==
    /\ DetectReturned
    /\ Len(ret[1]) >= 2
    /\ call.min_frames >= 2
    /\ \E i \in 1..Len(ret[1]) : ret[1][i].frame_count = call.min_frames

\* The entry at Python index i is defined and <= threshold.
Qualifies(i) == call.values[i + 1] # None /\ call.values[i + 1][1] <= call.threshold

\* The maximal qualifying runs of the scanned range that are long enough.
MaximalRuns ==
    LET R == call.index_start..(call.index_end - 1)
    IN  {p \in R \X R :
           /\ p[1] <= p[2]
           /\ \A k \in p[1]..p[2] : Qualifies(k)
           /\ (p[1] = call.index_start \/ ~Qualifies(p[1] - 1))
           /\ (p[2] = call.index_end - 1 \/ ~Qualifies(p[2] + 1))
           /\ p[2] - p[1] + 1 >= call.min_frames}

\* C2: detect_segments returns exactly the maximal qualifying runs of the
\* scanned range that are at least min_frames long, each once; so a run
\* still open at index_end - 1 is emitted under the same filter, an
\* undefined entry closes a run, and an empty or all-undefined range yields
\* nothing.
C2_ExactlyTheMaximalRuns ==
    DetectReturned =>
        LET segs == ret[1]
            emitted == {<<segs[i].start_frame_index, segs[i].end_frame_index>> :
                           i \in 1..Len(segs)}
        IN  /\ emitted = MaximalRuns
            /\ Len(segs) = Cardinality(MaximalRuns)
            /\ (call.index_start = call.index_end => segs = <<>>)
            /\ ((\A k \in call.index_start..(call.index_end - 1) :
                    call.values[k + 1] = None) => segs = <<>>)

\* The last segment is a run cut by the end of the range (the entry after
\* the range qualifies too), and an earlier run was closed by an undefined
\* entry.
C2_Witness ==
    /\ DetectReturned
    /\ Len(ret[1]) >= 2
    /\ ret[1][Len(ret[1])].end_frame_index = call.index_end - 1
    /\ call.index_end < Len(call.values)
    /\ Qualifies(call.index_end)
    /\ call.values[ret[1][1].end_frame_index + 2] = None

(***************************************************************************)
(* Claims about get_scope_indices (checked under SpecScope).               *)
(***************************************************************************)
ScopeReturned ==
    pc = "return" /\ call.fn = "get_scope_indices" /\ ret[1].raised = None

Ceil(num, den) == -((-num) \div den)

\* C5: a range get_scope_indices returns has 0 <= start <= end <= N; N <= 0
\* gives (0, 0), full scope gives (0, N), and a tail scope over N > 0 frames
\* ends at N and holds at least one frame.
C5_ScopeWithinClip ==
    ScopeReturned =>
        LET start == ret[1].value[1][1]
            end == ret[1].value[1][2]
            N == call.total_frames
        IN  /\ 0 <= start /\ start <= end /\ end <= N
            /\ (N <= 0 => start = 0 /\ end = 0)
            /\ (call.scope = "full" => start = 0 /\ end = N)
            /\ (call.scope = "tail" /\ N > 0 => end = N /\ end - start >= 1)

\* A tail window whose tail_seconds * fps rounds to 0 still holds one frame.
C5_Witness ==
    /\ ScopeReturned
    /\ call.scope = "tail"
    /\ call.total_frames >= 2
    /\ 2 * call.tail_q * call.fps < TailDen
    /\ ret[1].value[1] = <<call.total_frames - 1, call.total_frames>>

\* C6 as stated: the tail window is [max(0, N - ceil(tail_seconds * fps)), N)
\* for every value of tail_seconds * fps.
C6_TailWindowUsesCeil ==
    (ScopeReturned /\ call.scope = "tail" /\ call.total_frames > 0) =>
        ret[1].value[1] = <<Max(0, call.total_frames - Ceil(call.tail_q * call.fps, TailDen)),
                            call.total_frames>>

\* t is the integer nearest to num / den, the even one of the two when
\* num / den lies halfway between them.
IsNearestTiesToEven(t, num, den) ==
    LET dist2 == IF 2 * (t * den - num) >= 0 THEN 2 * (t * den - num)
                 ELSE 2 * (num - t * den)
    IN  /\ dist2 <= den
        /\ (dist2 = den => t % 2 = 0)

\* C6 (amended): the tail window is [max(0, N - max(1, t)), N) where t is
\* tail_seconds * fps rounded to the nearest integer, ties to even; this is
\* the ceil window whenever tail_seconds * fps is an integer.
C6_TailWindowUsesRound ==
    (ScopeReturned /\ call.scope = "tail" /\ call.total_frames > 0) =>
        LET N == call.total_frames
            num == call.tail_q * call.fps
        IN  /\ \E t \in 0..(num + 1) :
                 /\ IsNearestTiesToEven(t, num, TailDen)
                 /\ ret[1].value[1] = <<Max(0, N - Max(1, t)), N>>
            /\ (num % TailDen = 0 =>
                  ret[1].value[1] = <<Max(0, N - Ceil(num, TailDen)), N>>)

\* tail_seconds * fps is above 1, not an integer, and rounds down, and the
\* clip is longer than the ceil window.
C6_Witness ==
    /\ ScopeReturned
    /\ call.scope = "tail"
    /\ call.tail_q * call.fps > TailDen
    /\ (call.tail_q * call.fps) % TailDen # 0
    /\ 2 * ((call.tail_q * call.fps) % TailDen) <= TailDen
    /\ call.total_frames > Ceil(call.tail_q * call.fps, TailDen)

(***************************************************************************)
(* Claims about the segment reporters (checked under SpecReport).          *)
(***************************************************************************)
SegmentReportMade ==
    /\ pc = "print"
    /\ result # None
    /\ result[1].mode \in {"black-segments", "freeze-segments"}

AtEndFlag(r) ==
    IF r.mode = "black-segments" THEN r.has_black_at_video_end
    ELSE r.has_freeze_at_video_end

\* C3: in a black or freeze report of a clip of N >= 1 frames the at-end
\* flag is true exactly when the segment list is non-empty and its last
\* segment ends at N - 1, the last frame of the whole clip; no segment ends
\* beyond N - 1, so the code's >= is never more than equality.
C3_AtEndFlagIffLastSegmentEndsClip ==
    SegmentReportMade =>
        LET r == result[1]
            N == Len(luma_values)
            segs == r.segments
        IN  /\ AtEndFlag(r) = (segs # <<>> /\ segs[Len(segs)].end_frame_index = N - 1)
            /\ \A i \in 1..Len(segs) : segs[i].end_frame_index <= N - 1

\* A tail scope that starts after frame 0 holds two segments and the last
\* one ends the clip: the flag is set.
C3_Witness ==
    /\ SegmentReportMade
    /\ result[1].scope = "tail"
    /\ result[1].scope_start_frame > 0
    /\ Len(result[1].segments) >= 2
    /\ AtEndFlag(result[1])

FreezeReportMade == SegmentReportMade /\ result[1].mode = "freeze-segments"

\* C4: a freeze report scans and reports the range [max(s, 1), N), s being
\* the start get_scope_indices resolves for the N motion entries: no freeze
\* segment starts at frame 0, every segment lies in the reported range, and
\* when that range starts at 1, every entry after frame 0 qualifies and
\* N - 1 >= min_segment_frames, the one segment is {1, N - 1} of N - 1 frames.
C4_FreezeStartClampedToOne ==
    FreezeReportMade =>
        LET r == result[1]
            N == Len(motion_values)
            resolved == get_scope_indices(N, Scope, args.tail_q, fps[1]).value[1]
            segs == r.segments
        IN  /\ r.scope_start_frame = Max(resolved[1], 1)
            /\ r.scope_end_frame_exclusive = N
            /\ \A i \in 1..Len(segs) :
                 /\ segs[i].start_frame_index >= 1
                 /\ segs[i].start_frame_index >= r.scope_start_frame
                 /\ segs[i].end_frame_index < N
            /\ ((/\ r.scope_start_frame = 1
                 /\ N - 1 >= args.min_segment_frames
                 /\ \A k \in 2..N : motion_values[k][1] <= args.freeze_threshold)
                => /\ Len(segs) = 1
                   /\ segs[1].start_frame_index = 1
                   /\ segs[1].end_frame_index = N - 1
                   /\ segs[1].frame_count = N - 1)

\* A tail window covering the whole clip (it resolves to start 0) is
\* reported from frame 1, with the one segment {1, N - 1}.
C4_Witness ==
    /\ FreezeReportMade
    /\ result[1].scope = "tail"
    /\ Len(motion_values) >= 3
    /\ get_scope_indices(Len(motion_values), "tail", args.tail_q, fps[1]).value[1][1] = 0
    /\ result[1].scope_start_frame = 1
    /\ Len(result[1].segments) = 1
    /\ result[1].segments[1].start_frame_index = 1
    /\ result[1].segments[1].end_frame_index = Len(motion_values) - 1

(***************************************************************************)
(* Claims about the run of main (checked under Spec).                      *)
(***************************************************************************)
InvalidParams ==
    \/ args.min_segment_frames <= 0
    \/ args.black_threshold < 0
    \/ args.freeze_threshold < 0

\* C7: in a run whose input exists and whose min_segment_frames is <= 0 or
\* whose black or freeze threshold is negative, the frame source is never
\* opened, no frame is read and no segment scan is made; once run_analysis
\* has acted the run has failed with the invalid-parameter error.
C7_InvalidParamsFailBeforeDecoding ==
    (input_exists /\ InvalidParams) =>
        /\ reader = NewReader
        /\ luma_values = <<>>
        /\ scans = 0
        /\ result = None
        /\ pc \in {"run_analysis", "except", "done"}
        /\ (pc # "run_analysis" => exc # None /\ exc[1].kind = "ValueError")

\* A freeze-segments run with --min-segment-frames 0 and nothing else wrong
\* has ended.
C7_Witness ==
    /\ pc = "done"
    /\ input_exists
    /\ args.mode = "freeze-segments"
    /\ args.min_segment_frames = 0
    /\ args.black_threshold >= 0
    /\ args.freeze_threshold >= 0
    /\ exit_code = Some(2)

\* C8 as stated: a run with scope tail (directly or by the tail-black alias)
\* and tail_seconds <= 0 raises its invalid-parameter error without the
\* frame source having been opened or any frame read.
C8_TailSecondsFailsBeforeDecoding ==
    (/\ Scope = "tail"
     /\ args.tail_q <= 0
     /\ check_params(args) = None
     /\ exc # None
     /\ exc[1].kind = "ValueError") =>
        /\ reader.opens = 0
        /\ reader.reads = 0

\* C9: with provider auto the backends are called in the order
\* faster-whisper, openai-whisper; the second is called exactly when the
\* first ended in ModuleNotFoundError; the first backend that is available
\* returns the report and none is called after it; the unavailable error is
\* raised only when every candidate was called and found missing, and its
\* message lists each candidate with its reason.  A named provider is the
\* only backend called.
C9_FallbackOrder ==
    LET n == Len(tried)
        over == pc # "analyze_transcribe"
        unavailable == exc # None /\ exc[1].kind = "RuntimeError"
    IN  (pc \notin {"run_analysis"} /\ Mode = "transcribe" /\ check_params(args) = None
            /\ input_exists) =>
        /\ IF args.stt_provider = "auto"
           THEN /\ n <= 2
                /\ (n >= 1 => tried[1].provider = "faster-whisper")
                /\ (n >= 2 => tried[2].provider = "openai-whisper")
           ELSE /\ n <= 1
                /\ (n >= 1 => tried[1].provider = args.stt_provider)
        /\ (n >= 2 => tried[1].outcome = "missing")
        /\ (over /\ args.stt_provider = "auto" /\ tried[1].outcome = "missing" => n = 2)
        /\ (over => n >= 1)
        /\ \A i \in 1..(n - 1) : tried[i].outcome = "missing"
        /\ (result # None =>
              /\ tried[n].outcome = "ok"
              /\ result[1].provider = tried[n].provider)
        /\ (over /\ tried[n].outcome = "ok" => result # None /\ exc = None)
        /\ (unavailable =>
              /\ n = (IF args.stt_provider = "auto" THEN 2 ELSE 1)
              /\ \A i \in 1..n : tried[i].outcome = "missing"
              /\ Len(exc[1].msg.details) = n
              /\ \A i \in 1..n :
                    exc[1].msg.details[i] = <<tried[i].provider, NotInstalled(tried[i].provider)>>)
        /\ (over /\ (\A i \in 1..n : tried[i].outcome = "missing") =>
              /\ unavailable
              /\ n = (IF args.stt_provider = "auto" THEN 2 ELSE 1))

\* With provider auto both backends were found missing and the run ended on
\* the error that names both.
C9_Witness ==
    /\ pc = "done"
    /\ args.stt_provider = "auto"
    /\ Len(tried) = 2
    /\ tried[2].outcome = "missing"
    /\ Len(stderr) = 1
    /\ Len(stderr[1].details) = 2

\* C10: once the analysis has failed nothing is or will be written to
\* standard output or to the --output file, and the run ends with a non-zero
\* status and exactly one message, the exception's, on the error stream; a
\* report is written only after run_analysis has returned it.
C10_FailureWritesNoReport ==
    /\ (exc # None =>
          /\ stdout = <<>>
          /\ outfile = None
          /\ result = None)
    /\ (pc = "done" /\ exc # None =>
          /\ exit_code # None
          /\ exit_code[1] # 0
          /\ stderr = <<exc[1].msg>>)
    /\ (stdout # <<>> \/ outfile # None =>
          /\ result # None
          /\ exc = None
          /\ pc \in {"write", "done"}
          /\ stdout = <<dumps(result[1])>>
          /\ (outfile # None => outfile = Some(<<dumps(result[1]), "\n">>)))

\* A run that failed while decoding, after a frame had been read, has ended.
C10_Witness ==
    /\ pc = "done"
    /\ exc # None
    /\ exc[1].kind = "DecodeError"
    /\ reader.reads >= 1
    /\ Len(stderr) = 1
    /\ exit_code = Some(2)

(***************************************************************************)
(* Claims about the transcript text (checked under SpecTranscribe).        *)
(***************************************************************************)
TranscribeReturned == pc = "return" /\ call.fn = "transcribe"

\* The text without its leading and trailing whitespace.
Stripped(text) ==
    LET solid == {i \in 1..Len(text) : text[i] \notin Whitespace}
    IN  IF solid = {} THEN <<>>
        ELSE SubSeq(text, CHOOSE i \in solid : \A j \in solid : i <= j,
                          CHOOSE i \in solid : \A j \in solid : i >= j)

\* The non-empty stripped texts of the first k segments, in order, with one
\* space between neighbours.
RECURSIVE JoinedUpTo(_, _)
JoinedUpTo(segments, k) ==
    IF k = 0 THEN <<>>
    ELSE LET before == JoinedUpTo(segments, k - 1)
             t == Stripped(segments[k].text)
         IN  IF t = <<>> THEN before
             ELSE IF before = <<>> THEN t
             ELSE before \o <<" ">> \o t

\* C11 as stated: the transcript text is the non-empty stripped segment
\* texts in order (joined by single spaces), the same function of the
\* segment list for either backend, also when every segment text is empty
\* or there is no segment.
C11_TextIsFunctionOfSegments ==
    TranscribeReturned =>
        ret[1].text = JoinedUpTo(call.segments, Len(call.segments))

\* C11 (amended): the report's segments carry the stripped texts in order;
\* when some stripped text is non-empty the transcript is, for either
\* backend, those non-empty texts in order joined by single spaces; when
\* none is, faster-whisper reports the empty text and openai-whisper the
\* stripped text of the whole result.
C11_TextFromSegmentsOrResult ==
    TranscribeReturned =>
        LET r == ret[1]
            n == Len(call.segments)
            expected == JoinedUpTo(call.segments, n)
        IN  /\ r.segment_count = n
            /\ Len(r.segments) = n
            /\ \A i \in 1..n : r.segments[i].text = Stripped(call.segments[i].text)
            /\ (expected # <<>> => r.text = expected)
            /\ (expected = <<>> /\ r.provider = "faster-whisper" => r.text = <<>>)
            /\ (expected = <<>> /\ r.provider = "openai-whisper" =>
                  r.text = Stripped(call.text))

\* openai-whisper shaped two segments with non-empty texts, one of them
\* given with whitespace around it, into a two-word transcript.
C11_Witness ==
    /\ TranscribeReturned
    /\ ret[1].provider = "openai-whisper"
    /\ Len(call.segments) = 2
    /\ call.segments[1].text = <<"a", " ">>
    /\ ret[1].text = <<"a", " ", "a">>

(***************************************************************************)
(* Claim about load_metrics (checked under Spec).                          *)
(***************************************************************************)
InsideLoadMetrics == pc \in {"get_meta_data", "frames", "finally"}

\* C12: the frame source is opened at most once; while load_metrics holds
\* it open it is not closed, each frame read is read once (one metric pair
\* per read), and on every way out of load_metrics (exhaustion, an
\* exception from the metadata or from a frame, the zero-frames error) it
\* has been closed exactly once; after the close no frame is read and it is
\* not closed again.
C12_ReaderClosedExactlyOnce ==
    /\ [](/\ reader.opens <= 1
          /\ Len(luma_values) = reader.reads
          /\ Len(motion_values) = reader.reads
          /\ (reader.opens = 0 => reader = NewReader)
          /\ (reader.opens = 1 /\ InsideLoadMetrics =>
                reader.state = "open" /\ reader.closes = 0)
          /\ (reader.opens = 1 /\ ~InsideLoadMetrics =>
                reader.state = "closed" /\ reader.closes = 1))
    /\ [][reader.closes >= 1 => reader' = reader]_vars

\* The zero-frames error was raised with the reader already closed.
C12_Witness ==
    /\ pc = "except"
    /\ exc # None
    /\ exc[1].kind = "RuntimeError"
    /\ reader = [state |-> "closed", opens |-> 1, closes |-> 1, reads |-> 0]

(***************************************************************************)
(* Claim about the reported counts (checked under SpecReport).             *)
(***************************************************************************)
RECURSIVE SumFrameCounts(_)
SumFrameCounts(segs) ==
    IF segs = <<>> THEN 0 ELSE segs[1].frame_count + SumFrameCounts(Tail(segs))

CountInScope(r) ==
    IF r.mode = "black-segments" THEN r.black_frame_count_in_scope
    ELSE r.freeze_frame_count_in_scope

RatioInScope(r) ==
    IF r.mode = "black-segments" THEN r.black_frame_ratio_in_scope
    ELSE r.freeze_frame_ratio_in_scope

\* C13: in a black or freeze report the segments' frame counts sum to at
\* most the in-scope qualifying-frame count, which is at most the scope
\* size; the ratio is that count over the scope size, so within [0, 1], and
\* 0.0 for an empty scope; with min_segment_frames = 1 the sum equals the
\* count.
C13_SegmentFramesWithinScopeCount ==
    SegmentReportMade =>
        LET r == result[1]
            total == SumFrameCounts(r.segments)
            count == CountInScope(r)
            size == r.scope_end_frame_exclusive - r.scope_start_frame
            ratio == RatioInScope(r)
        IN  /\ 0 <= total /\ total <= count /\ count <= size
            /\ ratio.den > 0
            /\ 0 <= ratio.num /\ ratio.num <= ratio.den
            /\ (size > 0 => ratio = Frac(count, size))
            /\ (size = 0 => ratio.num = 0)
            /\ (r.min_segment_frames = 1 => total = count)

\* A short run was filtered out and a frame of the scope does not qualify:
\* both inequalities are strict.
C13_Witness ==
    /\ SegmentReportMade
    /\ result[1].min_segment_frames >= 2
    /\ 0 < SumFrameCounts(result[1].segments)
    /\ SumFrameCounts(result[1].segments) < CountInScope(result[1])
    /\ CountInScope(result[1])
          < result[1].scope_end_frame_exclusive - result[1].scope_start_frame

====
